---- MODULE Spec2Model ----
\* Model of check_if_online.py: the Wi-Fi auto-recover script.
\* One sequential process; pc is its position in the script.  External
\* commands (ping, netsh, the admin check, the console input) are the only
\* sources of nondeterminism.
EXTENDS Integers, Sequences, FiniteSets, TLC

\* ----------------------------------------------------------------- bounds
MaxTargets == 3      \* longest target list given to a stand-alone probe
MaxInputLen == 2     \* longest line typed at the menu
MaxPrompts == 3      \* menu prompts answered in one process
MaxRuns == 2         \* run_once invocations in one process

\* ---------------------------------------------------------- configuration
PING_TARGETS == <<"1.1.1.1", "8.8.8.8">>
POST_TOGGLE_WAIT_SECONDS == 5

Addresses == {"1.1.1.1", "8.8.8.8"}
TargetLists == UNION {[1..n -> Addresses] : n \in 0..MaxTargets}

\* Characters a menu line is made of: whitespace, both cases of the two
\* menu letters, and one other letter.
Whitespace == {" "}
Chars == {" ", "r", "R", "e", "E", "x"}
Inputs == UNION {[1..n -> Chars] : n \in 0..MaxInputLen}

\* ---------------------------------------------------------------- helpers
Range(s) == {s[i] : i \in 1..Len(s)}
Count(s, e) == Cardinality({i \in 1..Len(s) : s[i] = e})
Positions(s, e) == {i \in 1..Len(s) : s[i] = e}

\* str.strip(): drop leading and trailing whitespace.
RECURSIVE LStrip(_)
LStrip(s) == IF s = <<>> THEN s
             ELSE IF Head(s) \in Whitespace THEN LStrip(Tail(s)) ELSE s
RECURSIVE RStrip(_)
RStrip(s) == IF s = <<>> THEN s
             ELSE IF s[Len(s)] \in Whitespace THEN RStrip(SubSeq(s, 1, Len(s) - 1)) ELSE s
Strip(s) == RStrip(LStrip(s))

\* str.lower(): per-character case folding.
LowerChar(c) == CASE c = "R" -> "r" [] c = "E" -> "e" [] OTHER -> c
Lower(s) == [i \in 1..Len(s) |-> LowerChar(s[i])]

\* Faulty variant: only the first character of the line is looked at.
NormaliseFirstChar(raw) ==
  IF Strip(raw) = <<>> THEN <<>> ELSE SubSeq(Lower(Strip(raw)), 1, 1)
\* choice = input(...).strip().lower()
Normalise(raw) == Lower(Strip(raw))

\* The external commands the script runs, as they appear in the trace.
PingCmd(t) == <<"ping", t>>
DisableCmd == <<"netsh", "admin=disabled">>
EnableCmd == <<"netsh", "admin=enabled">>
PauseCmd == <<"sleep", "pause">>
TickCmd == <<"sleep", "tick">>
LaunchCmd == <<"start", "ms-settings:network-mobilehotspot">>

VARIABLES
  pc,          \* position in the script
  adminCheck,  \* what IsUserAnAdmin did: "none", "admin", "notadmin", "raised"
  is_admin,    \* ensure_admin's local
  relaunches,  \* ShellExecuteW "runas" calls made
  exitCode,    \* -1 while running, else the process exit code
  prompts,     \* menu prompts answered
  rawInput,    \* the line last read by input()
  choice,      \* main's local: the normalised line
  lastMsg,     \* last line printed by main / ensure_admin
  runs,        \* run_once invocations started
  targets,     \* the list check_connectivity iterates
  pingRC,      \* exit code ping gives for each list position during this probe
  probeNo,     \* which call of check_connectivity: 1, 2 (0: stand-alone)
  idx,         \* loop position in check_connectivity
  result,      \* return value of check_connectivity
  pingLog,     \* <<probeNo, position, exit code>> of each ping of this invocation
  netshLog,    \* exit code of each netsh command of this invocation
  remaining,   \* countdown's loop variable
  trace,       \* external commands run by this invocation, in order
  notices,     \* console lines of this invocation, in order
  totalDisable, totalEnable,  \* netsh commands issued by the process
  prev         \* pingLog, trace and outcome of the previous invocation

vars == <<pc, adminCheck, is_admin, relaunches, exitCode, prompts, rawInput,
          choice, lastMsg, runs, targets, pingRC, probeNo, idx, result, pingLog,
          netshLog, remaining, trace, notices, totalDisable, totalEnable, prev>>

mainVars == <<adminCheck, is_admin, relaunches, exitCode, prompts, rawInput,
              choice, lastMsg>>
probeVars == <<targets, pingRC, probeNo, idx, result, pingLog>>
flowVars == <<runs, netshLog, remaining, totalDisable, totalEnable, prev>>

\* The outcome an invocation reported, read off its console lines.
Outcome ==
  IF <<"INFO", "already_online">> \in Range(notices) THEN "AlreadyOnline"
  ELSE IF <<"OK", "back_online">> \in Range(notices) THEN "RecoveredAfterToggle"
  ELSE IF <<"ERR", "still_offline">> \in Range(notices) THEN "StillOffline"
  ELSE "None"

NoRecord == [pings |-> <<>>, trace |-> <<>>, outcome |-> "None"]

Init ==
  /\ pc = "main"
  /\ adminCheck = "none"
  /\ is_admin = FALSE
  /\ relaunches = 0
  /\ exitCode = -1
  /\ prompts = 0
  /\ rawInput = <<>>
  /\ choice = <<>>
  /\ lastMsg = "banner_privilege"
  /\ runs = 0
  /\ targets = PING_TARGETS
  /\ pingRC = <<>>
  /\ probeNo = 0
  /\ idx = 0
  /\ result = FALSE
  /\ pingLog = <<>>
  /\ netshLog = <<>>
  /\ remaining = 0
  /\ trace = <<>>
  /\ notices = <<>>
  /\ totalDisable = 0
  /\ totalEnable = 0
  /\ prev = NoRecord

\* ------------------------------------------------------------ ensure_admin
\* Faulty variant: a failed admin check is taken for "admin".
EnsureAdminCheckTrustsFailure ==
  /\ pc = "main"
  /\ \E r \in {"admin", "notadmin", "raised"} :
       /\ adminCheck' = r
       /\ is_admin' = (r # "notadmin")
       /\ pc' = IF r # "notadmin" THEN "menu" ELSE "relaunch"
       /\ lastMsg' = IF r # "notadmin" THEN "ok_admin" ELSE "warn_need_admin"
  /\ UNCHANGED <<relaunches, exitCode, prompts, rawInput, choice, runs, trace, notices>>
  /\ UNCHANGED probeVars
  /\ UNCHANGED <<netshLog, remaining, totalDisable, totalEnable, prev>>

\* IsUserAnAdmin(); an exception counts as "not admin".
EnsureAdminCheck ==
  /\ pc = "main"
  /\ \E r \in {"admin", "notadmin", "raised"} :
       /\ adminCheck' = r
       /\ is_admin' = (r = "admin")
       /\ pc' = IF r = "admin" THEN "menu" ELSE "relaunch"
       /\ lastMsg' = IF r = "admin" THEN "ok_admin" ELSE "warn_need_admin"
  /\ UNCHANGED <<relaunches, exitCode, prompts, rawInput, choice, runs, trace, notices>>
  /\ UNCHANGED probeVars
  /\ UNCHANGED <<netshLog, remaining, totalDisable, totalEnable, prev>>

\* ShellExecuteW(None, "runas", ...) and sys.exit(0).
EnsureAdminRelaunch ==
  /\ pc = "relaunch"
  /\ relaunches' = relaunches + 1
  /\ exitCode' = 0
  /\ pc' = "terminated"
  /\ UNCHANGED <<adminCheck, is_admin, prompts, rawInput, choice, lastMsg, runs,
                 trace, notices>>
  /\ UNCHANGED probeVars
  /\ UNCHANGED <<netshLog, remaining, totalDisable, totalEnable, prev>>

\* ------------------------------------------------------- check_connectivity
\* Entry: the banner; the network decides what each target will answer.
CheckStart ==
  /\ pc = "check_start"
  /\ \E rc \in [1..Len(targets) -> {0, 1}] : pingRC' = rc
  /\ idx' = 1
  /\ notices' = Append(notices, <<"BANNER", "connectivity_check">>)
  /\ pc' = "check_loop"
  /\ UNCHANGED mainVars
  /\ UNCHANGED <<targets, probeNo, result, pingLog, trace>>
  /\ UNCHANGED flowVars

\* Faulty variant: a reply is noted but the loop goes on to the next target.
PingTargetNoShortCircuit ==
  /\ pc = "check_loop"
  /\ idx <= Len(targets)
  /\ trace' = Append(trace, PingCmd(targets[idx]))
  /\ pingLog' = Append(pingLog, <<probeNo, idx, pingRC[idx]>>)
  /\ IF pingRC[idx] = 0
       THEN /\ notices' = notices \o <<<<"INFO", "pinging">>, <<"OK", "reachable">>>>
            /\ result' = TRUE
            /\ pc' = IF idx = Len(targets) THEN "check_ret" ELSE "check_loop"
       ELSE /\ notices' = notices \o <<<<"INFO", "pinging">>, <<"WARN", "no_response">>>>
            /\ UNCHANGED <<result, pc>>
  /\ idx' = idx + 1
  /\ UNCHANGED mainVars
  /\ UNCHANGED <<targets, pingRC, probeNo>>
  /\ UNCHANGED flowVars

\* One iteration of the for loop: ping the target, return True on exit code 0.
PingTarget ==
  /\ pc = "check_loop"
  /\ idx <= Len(targets)
  /\ trace' = Append(trace, PingCmd(targets[idx]))
  /\ pingLog' = Append(pingLog, <<probeNo, idx, pingRC[idx]>>)
  /\ IF pingRC[idx] = 0
       THEN /\ notices' = notices \o <<<<"INFO", "pinging">>, <<"OK", "reachable">>>>
            /\ result' = TRUE
            /\ pc' = "check_ret"
            /\ UNCHANGED idx
       ELSE /\ notices' = notices \o <<<<"INFO", "pinging">>, <<"WARN", "no_response">>>>
            /\ idx' = idx + 1
            /\ UNCHANGED <<result, pc>>
  /\ UNCHANGED mainVars
  /\ UNCHANGED <<targets, pingRC, probeNo>>
  /\ UNCHANGED flowVars

\* Faulty variant: gives up after the first target that does not answer.
CheckExhaustedEarly ==
  /\ pc = "check_loop"
  /\ idx > 1 \/ Len(targets) = 0
  /\ notices' = Append(notices, <<"ERR", "all_failed">>)
  /\ result' = FALSE
  /\ pc' = "check_ret"
  /\ UNCHANGED mainVars
  /\ UNCHANGED <<targets, pingRC, probeNo, idx, pingLog, trace>>
  /\ UNCHANGED flowVars

\* The loop ran out of targets: report OFFLINE and return False.
CheckExhausted ==
  /\ pc = "check_loop"
  /\ idx > Len(targets)
  /\ notices' = Append(notices, <<"ERR", "all_failed">>)
  /\ result' = FALSE
  /\ pc' = "check_ret"
  /\ UNCHANGED mainVars
  /\ UNCHANGED <<targets, pingRC, probeNo, idx, pingLog, trace>>
  /\ UNCHANGED flowVars

\* --------------------------------------------------------- toggle_wifi_once
\* Faulty variant: the exit code is checked and a failure raises, ending
\* the process with a traceback.
ToggleDisableChecked ==
  /\ pc = "toggle_disable"
  /\ \E rc \in {0, 1}, said \in BOOLEAN :
       /\ rc = 0 => ~said
       /\ netshLog' = Append(netshLog, rc)
       /\ notices' = notices \o <<<<"BANNER", "toggling">>, <<"INFO", "disabling">>>>
                       \o (IF said THEN <<<<"NETSH", "error_text">>>> ELSE <<>>)
       /\ pc' = IF rc = 0 THEN "toggle_pause" ELSE "crashed"
  /\ trace' = Append(trace, DisableCmd)
  /\ totalDisable' = totalDisable + 1
  /\ UNCHANGED mainVars
  /\ UNCHANGED probeVars
  /\ UNCHANGED <<runs, remaining, totalEnable, prev>>

\* netsh's own output is not captured: whatever it prints reaches the console.
\* Its exit code is not looked at.
ToggleDisable ==
  /\ pc = "toggle_disable"
  /\ \E rc \in {0, 1}, said \in BOOLEAN :
       /\ rc = 0 => ~said
       /\ netshLog' = Append(netshLog, rc)
       /\ notices' = notices \o <<<<"BANNER", "toggling">>, <<"INFO", "disabling">>>>
                       \o (IF said THEN <<<<"NETSH", "error_text">>>> ELSE <<>>)
  /\ trace' = Append(trace, DisableCmd)
  /\ totalDisable' = totalDisable + 1
  /\ pc' = "toggle_pause"
  /\ UNCHANGED mainVars
  /\ UNCHANGED probeVars
  /\ UNCHANGED <<runs, remaining, totalEnable, prev>>

\* time.sleep(2) between the two commands.
TogglePause ==
  /\ pc = "toggle_pause"
  /\ trace' = Append(trace, PauseCmd)
  /\ pc' = "toggle_enable"
  /\ UNCHANGED mainVars
  /\ UNCHANGED probeVars
  /\ UNCHANGED flowVars
  /\ UNCHANGED notices

ToggleEnable ==
  /\ pc = "toggle_enable"
  /\ \E rc \in {0, 1}, said \in BOOLEAN :
       /\ rc = 0 => ~said
       /\ netshLog' = Append(netshLog, rc)
       /\ notices' = notices \o <<<<"INFO", "enabling">>>>
                       \o (IF said THEN <<<<"NETSH", "error_text">>>> ELSE <<>>)
                       \o <<<<"OK", "cycle_complete">>>>
  /\ trace' = Append(trace, EnableCmd)
  /\ totalEnable' = totalEnable + 1
  /\ pc' = "countdown_start"
  /\ UNCHANGED mainVars
  /\ UNCHANGED probeVars
  /\ UNCHANGED <<runs, remaining, totalDisable, prev>>

\* ---------------------------------------------------------------- countdown
\* Faulty variant: the countdown starts one second short.
CountdownStartOffByOne ==
  /\ pc = "countdown_start"
  /\ remaining' = POST_TOGGLE_WAIT_SECONDS - 1
  /\ notices' = Append(notices, <<"INFO", "waiting">>)
  /\ pc' = "countdown_loop"
  /\ UNCHANGED mainVars
  /\ UNCHANGED probeVars
  /\ UNCHANGED <<runs, netshLog, totalDisable, totalEnable, prev, trace>>

\* range(seconds, 0, -1): seconds, seconds-1, ..., 1.
CountdownStart ==
  /\ pc = "countdown_start"
  /\ remaining' = POST_TOGGLE_WAIT_SECONDS
  /\ notices' = Append(notices, <<"INFO", "waiting">>)
  /\ pc' = "countdown_loop"
  /\ UNCHANGED mainVars
  /\ UNCHANGED probeVars
  /\ UNCHANGED <<runs, netshLog, totalDisable, totalEnable, prev, trace>>

\* One iteration: print the remaining seconds, sleep one second.
CountdownTick ==
  /\ pc = "countdown_loop"
  /\ remaining > 0
  /\ trace' = Append(trace, TickCmd)
  /\ remaining' = remaining - 1
  /\ UNCHANGED pc
  /\ UNCHANGED mainVars
  /\ UNCHANGED probeVars
  /\ UNCHANGED <<runs, netshLog, totalDisable, totalEnable, prev, notices>>

\* Loop over: "Wait complete."; run_once goes on to the second probe.
CountdownDone ==
  /\ pc = "countdown_loop"
  /\ remaining = 0
  /\ notices' = Append(notices, <<"OK", "wait_complete">>)
  /\ probeNo' = 2
  /\ pc' = "check_start"
  /\ UNCHANGED mainVars
  /\ UNCHANGED <<targets, pingRC, idx, result, pingLog, trace>>
  /\ UNCHANGED flowVars

\* ---------------------------------------------------- open_hotspot_settings
OpenHotspotSettings ==
  /\ pc = "launch"
  /\ trace' = Append(trace, LaunchCmd)
  /\ notices' = notices \o <<<<"BANNER", "opening_hotspot">>, <<"INFO", "launching">>,
                             <<"OK", "settings_launched">>>>
  /\ pc' = "menu"
  /\ UNCHANGED mainVars
  /\ UNCHANGED probeVars
  /\ UNCHANGED flowVars

\* ----------------------------------------------------------------- run_once
\* Entry: the start banner, then the first probe.  The record of the
\* invocation before is kept in prev; the per-invocation logs start empty.
RunOnceStart ==
  /\ pc = "run_once"
  /\ runs' = runs + 1
  /\ prev' = [pings |-> pingLog, trace |-> trace, outcome |-> Outcome]
  /\ pingLog' = <<>>
  /\ netshLog' = <<>>
  /\ trace' = <<>>
  /\ notices' = <<<<"BANNER", "start">>>>
  /\ probeNo' = 1
  /\ pc' = "check_start"
  /\ UNCHANGED mainVars
  /\ UNCHANGED <<targets, pingRC, idx, result>>
  /\ UNCHANGED <<remaining, totalDisable, totalEnable>>

\* Faulty variant: the toggle runs whatever the first probe said.
RunOnceFirstResultAlwaysToggle ==
  /\ pc = "check_ret"
  /\ probeNo = 1
  /\ pc' = "toggle_disable"
  /\ pingRC' = <<>>
  /\ UNCHANGED mainVars
  /\ UNCHANGED <<targets, probeNo, idx, result, pingLog, trace, notices>>
  /\ UNCHANGED flowVars

\* Faulty variant: a process that has toggled once remembers it and skips
\* the toggle in later invocations.
RunOnceFirstResultTogglesOncePerProcess ==
  /\ pc = "check_ret"
  /\ probeNo = 1
  /\ IF result
       THEN /\ notices' = Append(notices, <<"INFO", "already_online">>)
            /\ pc' = "menu"
       ELSE /\ pc' = IF totalDisable > 0 THEN "countdown_start" ELSE "toggle_disable"
            /\ UNCHANGED notices
  /\ pingRC' = <<>>
  /\ UNCHANGED mainVars
  /\ UNCHANGED <<targets, probeNo, idx, result, pingLog, trace>>
  /\ UNCHANGED flowVars

\* if check_connectivity(): "Already online" ... else: toggle_wifi_once()
RunOnceFirstResult ==
  /\ pc = "check_ret"
  /\ probeNo = 1
  /\ IF result
       THEN /\ notices' = Append(notices, <<"INFO", "already_online">>)
            /\ pc' = "menu"
       ELSE /\ pc' = "toggle_disable"
            /\ UNCHANGED notices
  /\ pingRC' = <<>>
  /\ UNCHANGED mainVars
  /\ UNCHANGED <<targets, probeNo, idx, result, pingLog, trace>>
  /\ UNCHANGED flowVars

\* Faulty variant: the settings page is opened after the second probe
\* whatever it said.
RunOnceSecondResultLaunchAlways ==
  /\ pc = "check_ret"
  /\ probeNo = 2
  /\ IF result
       THEN notices' = Append(notices, <<"OK", "back_online">>)
       ELSE notices' = Append(notices, <<"ERR", "still_offline">>)
  /\ pc' = "launch"
  /\ pingRC' = <<>>
  /\ UNCHANGED mainVars
  /\ UNCHANGED <<targets, probeNo, idx, result, pingLog, trace>>
  /\ UNCHANGED flowVars

\* Faulty variant: a failed second probe starts another toggle cycle.
RunOnceSecondResultRetry ==
  /\ pc = "check_ret"
  /\ probeNo = 2
  /\ IF result
       THEN /\ notices' = Append(notices, <<"OK", "back_online">>)
            /\ pc' = "launch"
       ELSE /\ Count(trace, DisableCmd) < 2
            /\ notices' = Append(notices, <<"WARN", "retrying">>)
            /\ pc' = "toggle_disable"
  /\ pingRC' = <<>>
  /\ UNCHANGED mainVars
  /\ UNCHANGED <<targets, probeNo, idx, result, pingLog, trace>>
  /\ UNCHANGED flowVars

\* if check_connectivity(): "Back online", open_hotspot_settings() else: "Still offline"
RunOnceSecondResult ==
  /\ pc = "check_ret"
  /\ probeNo = 2
  /\ IF result
       THEN /\ notices' = Append(notices, <<"OK", "back_online">>)
            /\ pc' = "launch"
       ELSE /\ notices' = Append(notices, <<"ERR", "still_offline">>)
            /\ pc' = "menu"
  /\ pingRC' = <<>>
  /\ UNCHANGED mainVars
  /\ UNCHANGED <<targets, probeNo, idx, result, pingLog, trace>>
  /\ UNCHANGED flowVars

\* --------------------------------------------------------------- main: menu
\* The menu banner and input(): read a line and normalise it.
MenuRead ==
  /\ pc = "menu"
  /\ prompts < MaxPrompts
  /\ \E raw \in Inputs :
       /\ rawInput' = raw
       /\ choice' = Normalise(raw)
  /\ prompts' = prompts + 1
  /\ lastMsg' = "banner_menu"
  /\ pc' = "menu_dispatch"
  /\ UNCHANGED <<adminCheck, is_admin, relaunches, exitCode, trace, notices>>
  /\ UNCHANGED probeVars
  /\ UNCHANGED flowVars

\* The if / elif / else on choice.  The line and choice are not read again
\* once the branch is taken (the next pass of the loop overwrites them).
MenuDispatch ==
  /\ pc = "menu_dispatch"
  /\ IF choice = <<"r">>
       THEN /\ runs < MaxRuns
            /\ pc' = "run_once"
            /\ UNCHANGED <<lastMsg, exitCode>>
       ELSE IF choice = <<"e">>
         THEN /\ lastMsg' = "info_exiting"
              /\ exitCode' = 0
              /\ pc' = "terminated"
         ELSE /\ lastMsg' = "warn_invalid"
              /\ pc' = "menu"
              /\ UNCHANGED exitCode
  /\ rawInput' = <<>>
  /\ choice' = <<>>
  /\ UNCHANGED <<adminCheck, is_admin, relaunches, prompts, trace, notices>>
  /\ UNCHANGED probeVars
  /\ UNCHANGED flowVars

\* ------------------------------------------------------------ specifications
FlowStep ==
  \/ RunOnceStart
  \/ CheckStart
  \/ PingTarget
  \/ CheckExhausted
  \/ RunOnceFirstResult
  \/ ToggleDisable
  \/ TogglePause
  \/ ToggleEnable
  \/ CountdownStart
  \/ CountdownTick
  \/ CountdownDone
  \/ RunOnceSecondResult
  \/ OpenHotspotSettings

Next ==
  \/ EnsureAdminCheck
  \/ EnsureAdminRelaunch
  \/ MenuRead
  \/ MenuDispatch
  \/ RunOnceStart
  \/ CheckStart
  \/ PingTarget
  \/ CheckExhausted
  \/ RunOnceFirstResult
  \/ ToggleDisable
  \/ TogglePause
  \/ ToggleEnable
  \/ CountdownStart
  \/ CountdownTick
  \/ CountdownDone
  \/ RunOnceSecondResult
  \/ OpenHotspotSettings

Spec == Init /\ [][Next]_vars

\* Every step of run_once is a blocking call that returns, so a started
\* invocation keeps moving; only the operator at the menu may wait forever.
FairSpec == Spec /\ WF_vars(FlowStep)

\* check_connectivity called on its own, on any target list.
ProbeInit ==
  /\ pc = "check_start"
  /\ targets \in TargetLists
  /\ adminCheck = "admin"
  /\ is_admin = TRUE
  /\ relaunches = 0
  /\ exitCode = -1
  /\ prompts = 0
  /\ rawInput = <<>>
  /\ choice = <<>>
  /\ lastMsg = "ok_admin"
  /\ runs = 0
  /\ pingRC = <<>>
  /\ probeNo = 0
  /\ idx = 0
  /\ result = FALSE
  /\ pingLog = <<>>
  /\ netshLog = <<>>
  /\ remaining = 0
  /\ trace = <<>>
  /\ notices = <<>>
  /\ totalDisable = 0
  /\ totalEnable = 0
  /\ prev = NoRecord

ProbeNext ==
  \/ CheckStart
  \/ PingTarget
  \/ CheckExhausted

ProbeSpec == ProbeInit /\ [][ProbeNext]_vars

\* =================================================================== claims
\* Observations on the logs of the current (or last) invocation.
IsPing(e) == e[1] = "ping"
IsNotPing(e) == e[1] # "ping"
InProbe1(e) == e[1] = 1
InProbe2(e) == e[1] = 2
Probe1 == SelectSeq(pingLog, InProbe1)
Probe2 == SelectSeq(pingLog, InProbe2)
Replied(log) == \E k \in 1..Len(log) : log[k][3] = 0
NonPing == SelectSeq(trace, IsNotPing)
IdlePcs == {"menu", "menu_dispatch", "run_once", "terminated"}
FlowPcs == {"check_start", "check_loop", "check_ret", "toggle_disable", "toggle_pause",
            "toggle_enable", "countdown_start", "countdown_loop", "launch"}
RunFinished == runs > 0 /\ pc \in IdlePcs
Ticks(n) == [i \in 1..n |-> TickCmd]

\* ---- C1 (ProbeSpec) ----
SomeReply == \E i \in 1..Len(targets) : pingRC[i] = 0
FirstReply == CHOOSE i \in 1..Len(targets) :
                pingRC[i] = 0 /\ \A j \in 1..(i - 1) : pingRC[j] # 0
PingsOf(i) == Cardinality({k \in 1..Len(pingLog) : pingLog[k][2] = i})
\* C2: when no target of the list replies, check_connectivity returns
\* False after pinging every list position exactly once; and it never returns
\* False while a position of the list is still unpinged.
C2_ExhaustiveFailure ==
  /\ (pc # "check_start" /\ ~SomeReply) =>
       \A i \in 1..Len(targets) : PingsOf(i) <= 1
  /\ (pc = "check_ret" /\ ~SomeReply) =>
       /\ result = FALSE
       /\ \A i \in 1..Len(targets) : PingsOf(i) = 1
       /\ Len(pingLog) = Len(targets)
  /\ (pc = "check_ret" /\ result = FALSE) =>
       \A i \in 1..Len(targets) : PingsOf(i) >= 1

\* A three-target probe in which nobody replied has returned False.
C2_Witness ==
  /\ pc = "check_ret"
  /\ Len(targets) = 3
  /\ pingRC = <<1, 1, 1>>
  /\ result = FALSE
  /\ Len(pingLog) = 3

\* ---- C3 (Spec) ----
\* C3: an invocation of run_once whose first probe is reachable issues no
\* netsh disable, no netsh enable, no pause or post-toggle wait, no second
\* probe and no settings launch, and the outcome it reports is AlreadyOnline.
C3_AlreadyOnline ==
  Replied(Probe1) =>
    /\ Count(trace, DisableCmd) = 0
    /\ Count(trace, EnableCmd) = 0
    /\ Count(trace, PauseCmd) = 0
    /\ Count(trace, TickCmd) = 0
    /\ Count(trace, LaunchCmd) = 0
    /\ NonPing = <<>>
    /\ Probe2 = <<>>
    /\ netshLog = <<>>
    /\ Outcome \in {"None", "AlreadyOnline"}
    /\ RunFinished => Outcome = "AlreadyOnline"

\* An invocation that found the second target reachable is over.
C3_Witness ==
  /\ RunFinished
  /\ pingLog = <<<<1, 1, 1>>, <<1, 2, 0>>>>
  /\ Outcome = "AlreadyOnline"

\* ---- C4 (Spec) ----
EnablePos == CHOOSE i \in Positions(trace, EnableCmd) : TRUE
DisablePos == CHOOSE i \in Positions(trace, DisableCmd) : TRUE
SecondProbePos == CHOOSE i \in 1..Len(trace) :
                    /\ i > EnablePos
                    /\ IsPing(trace[i])
                    /\ \A j \in (EnablePos + 1)..(i - 1) : ~IsPing(trace[j])
\* C4: a finished invocation whose first probe was unreachable and whose
\* second probe was reachable ran exactly one netsh disable and one netsh
\* enable, in that order; between the enable and the first ping of the second
\* probe it slept POST_TOGGLE_WAIT_SECONDS one-second ticks and did nothing
\* else; it reported RecoveredAfterToggle and launched the settings page
\* exactly once.
C4_RecoveredAfterToggle ==
  (RunFinished /\ ~Replied(Probe1) /\ Replied(Probe2)) =>
    /\ Count(trace, DisableCmd) = 1
    /\ Count(trace, EnableCmd) = 1
    /\ DisablePos < EnablePos
    /\ SubSeq(trace, EnablePos + 1, SecondProbePos - 1) = Ticks(POST_TOGGLE_WAIT_SECONDS)
    /\ Count(trace, TickCmd) = POST_TOGGLE_WAIT_SECONDS
    /\ Outcome = "RecoveredAfterToggle"
    /\ Count(trace, LaunchCmd) = 1
    /\ trace[Len(trace)] = LaunchCmd

\* Both targets silent, toggle, then the first target replies.
C4_Witness ==
  /\ RunFinished
  /\ pingLog = <<<<1, 1, 1>>, <<1, 2, 1>>, <<2, 1, 0>>>>
  /\ Outcome = "RecoveredAfterToggle"
  /\ Count(trace, LaunchCmd) = 1

\* ---- C5 (Spec) ----
\* C5: an invocation in which no ping has been answered never issues a
\* second netsh disable or enable and never launches the settings page; once
\* finished with both probes unreachable it has run exactly one disable and
\* one enable, has probed exactly twice (each target pinged once per probe),
\* and reports StillOffline.
C5_StillOffline ==
  ~Replied(pingLog) =>
    /\ Count(trace, DisableCmd) <= 1
    /\ Count(trace, EnableCmd) <= 1
    /\ Count(trace, LaunchCmd) = 0
    /\ pc # "launch"
    /\ Len(Probe1) <= Len(targets) /\ Len(Probe2) <= Len(targets)
    /\ RunFinished =>
         /\ Count(trace, DisableCmd) = 1
         /\ Count(trace, EnableCmd) = 1
         /\ Len(Probe1) = Len(targets) /\ Len(Probe2) = Len(targets)
         /\ Len(pingLog) = 2 * Len(targets)
         /\ Outcome = "StillOffline"

\* Four unanswered pings, one toggle cycle, and the invocation is over.
C5_Witness ==
  /\ RunFinished
  /\ pingLog = <<<<1, 1, 1>>, <<1, 2, 1>>, <<2, 1, 1>>, <<2, 2, 1>>>>
  /\ Count(trace, DisableCmd) = 1
  /\ Outcome = "StillOffline"

\* ---- C6 (Spec) ----
ToggleFailed == 1 \in Range(netshLog)
ToggleBanner == <<"BANNER", "toggling">>
CycleComplete == <<"OK", "cycle_complete">>
ToggleSpan ==
  IF Positions(notices, ToggleBanner) = {} THEN {}
  ELSE LET from == CHOOSE i \in Positions(notices, ToggleBanner) : TRUE
           upto == IF Positions(notices, CycleComplete) = {} THEN Len(notices)
                   ELSE CHOOSE i \in Positions(notices, CycleComplete) : TRUE
       IN from..upto
ToggleCycle == <<DisableCmd, PauseCmd, EnableCmd>>
FlowAfterToggle ==
  /\ pc # "crashed"
  /\ Len(netshLog) = 2 => CycleComplete \in Range(notices)
  /\ RunFinished =>
       /\ Len(Probe2) >= 1
       /\ Outcome \in {"RecoveredAfterToggle", "StillOffline"}
       /\ NonPing = ToggleCycle \o Ticks(POST_TOGGLE_WAIT_SECONDS)
                      \o (IF Outcome = "RecoveredAfterToggle" THEN <<LaunchCmd>> ELSE <<>>)

C7_ElevationGate ==
  /\ adminCheck # "admin" =>
       /\ pc \in {"main", "relaunch", "terminated"}
       /\ prompts = 0
       /\ runs = 0
       /\ trace = <<>>
       /\ pingLog = <<>>
       /\ netshLog = <<>>
       /\ totalDisable = 0 /\ totalEnable = 0
  /\ adminCheck \in {"notadmin", "raised"} =>
       /\ ~is_admin
       /\ pc = "relaunch" => relaunches = 0
       /\ pc = "terminated" => relaunches = 1 /\ exitCode = 0
  /\ (trace # <<>> \/ prompts > 0) => (adminCheck = "admin" /\ is_admin /\ relaunches = 0)

\* The admin check raised; the process asked for elevation and exited.
C7_Witness ==
  /\ adminCheck = "raised"
  /\ pc = "terminated"
  /\ relaunches = 1

\* ---- C8 (Spec) ----
\* What the operator typed, read directly off the line: one menu letter in
\* either case with nothing but whitespace around it.
IsLetterLine(raw, letters) ==
  \E i \in 1..Len(raw) :
    /\ raw[i] \in letters
    /\ \A j \in 1..Len(raw) : j # i => raw[j] \in Whitespace
IsRunLine(raw) == IsLetterLine(raw, {"r", "R"})
IsExitLine(raw) == IsLetterLine(raw, {"e", "E"})

\* C8: at the menu, a line that is neither the run choice nor the exit
\* choice runs no ping, no netsh and no settings launch, starts no invocation
\* and leads back to the prompt; the exit choice ends the process with exit
\* code 0 without starting an invocation; and an elevated process ends only
\* by a step that dispatches the exit choice.
C8_MenuInput ==
  [][ /\ pc = "menu_dispatch" =>
           /\ (~IsRunLine(rawInput) /\ ~IsExitLine(rawInput)) =>
                /\ pc' = "menu"
                /\ UNCHANGED <<runs, trace, pingLog, netshLog, notices, exitCode,
                               totalDisable, totalEnable, relaunches>>
           /\ IsExitLine(rawInput) =>
                /\ pc' = "terminated"
                /\ exitCode' = 0
                /\ UNCHANGED <<runs, trace, pingLog, netshLog, notices,
                               totalDisable, totalEnable, relaunches>>
      /\ (adminCheck = "admin" /\ pc # "terminated" /\ pc' \in {"terminated", "crashed"}) =>
           /\ pc = "menu_dispatch"
           /\ IsExitLine(rawInput)
           /\ pc' = "terminated"
    ]_vars

\* After a finished invocation the operator typed something invalid and is
\* back at the prompt.
C8_Witness ==
  /\ pc = "menu"
  /\ lastMsg = "warn_invalid"
  /\ runs = 1
  /\ prompts = 2

\* ---- C9 (Spec) ----
\* C9: over any sequence of menu choices the process has issued at most
\* one netsh disable per invocation started and never more enables than
\* disables, and between invocations the two counts are equal; and whenever
\* two consecutive invocations saw the same ping answers, the second reported
\* the same outcome and ran the same sequence of external commands as the
\* first.
C9_Repeatable ==
  /\ totalEnable <= totalDisable
  /\ totalDisable <= runs
  /\ Count(trace, DisableCmd) <= 1
  /\ pc \in IdlePcs => totalDisable = totalEnable
  /\ (RunFinished /\ runs >= 2 /\ prev.pings = pingLog) =>
       /\ prev.outcome = Outcome
       /\ prev.trace = trace

\* Two invocations in a row that both found the network down, toggled and
\* recovered on the first target.
C9_Witness ==
  /\ RunFinished
  /\ runs = 2
  /\ totalDisable = 2
  /\ prev.pings = pingLog
  /\ pingLog = <<<<1, 1, 1>>, <<1, 2, 1>>, <<2, 1, 0>>>>
  /\ Outcome = "RecoveredAfterToggle"

\* ---- C10 (FairSpec) ----
\* The state of the spec's state machine the script is in.
CheckPcs == {"check_start", "check_loop", "check_ret"}
Phase ==
  CASE pc \in {"main", "relaunch"} -> "NotStarted"
    [] pc \in IdlePcs ->
         IF runs = 0 THEN "NotStarted"
         ELSE IF Outcome = "AlreadyOnline" THEN "Online"
         ELSE IF Outcome = "RecoveredAfterToggle" THEN "Recovered"
         ELSE IF Outcome = "StillOffline" THEN "StillFailing"
         ELSE "Unknown"
    [] pc = "check_start" /\ probeNo = 1 -> "Start"
    [] pc \in {"check_loop", "check_ret"} /\ probeNo = 1 -> "ProbeInitial"
    [] pc = "toggle_disable" -> "Offline"
    [] pc \in {"toggle_pause", "toggle_enable"} -> "Toggling"
    [] pc \in {"countdown_start", "countdown_loop"} -> "Waiting"
    [] pc \in CheckPcs /\ probeNo = 2 -> "ProbeFinal"
    [] pc = "launch" -> "Recovered"
    [] OTHER -> "Unknown"
Terminal == {"Online", "Recovered", "StillFailing"}
PhaseEdges ==
  {<<"NotStarted", "Start">>, <<"Online", "Start">>, <<"Recovered", "Start">>,
   <<"StillFailing", "Start">>,
   <<"Start", "ProbeInitial">>, <<"ProbeInitial", "Online">>,
   <<"ProbeInitial", "Offline">>, <<"Offline", "Toggling">>,
   <<"Toggling", "Waiting">>, <<"Waiting", "ProbeFinal">>,
   <<"ProbeFinal", "Recovered">>, <<"ProbeFinal", "StillFailing">>}
CommandOrder ==
  /\ Phase # "Unknown"
  /\ \A i \in Positions(trace, EnableCmd) :
       \E j \in 1..(i - 1) : \E k \in (j + 1)..(i - 1) :
         trace[j] = DisableCmd /\ trace[k] = PauseCmd
  /\ Phase = "Toggling" => Count(trace, DisableCmd) = 1 /\ Count(trace, EnableCmd) = 0
  /\ Count(trace, LaunchCmd) > 0 =>
       /\ Replied(Probe2)
       /\ Count(trace, DisableCmd) = 1 /\ Count(trace, EnableCmd) = 1
       /\ \A l \in Positions(trace, LaunchCmd) : EnablePos < l /\ SecondProbePos < l

\* C10: every invocation of run_once moves through the states only along
\* Start -> ProbeInitial -> Online, or Start -> ProbeInitial -> Offline ->
\* Toggling -> Waiting -> ProbeFinal -> Recovered or StillFailing, so that no
\* state is entered twice in one invocation; netsh disable and the pause come
\* before netsh enable; the settings launch comes only after a toggle cycle
\* and a second probe that got a reply; and, every external command
\* returning, an invocation that has started reaches Online, Recovered or
\* StillFailing.
C10_LinearStateMachine ==
  /\ [][Phase' = Phase \/ <<Phase, Phase'>> \in PhaseEdges]_vars
  /\ []CommandOrder
  /\ (pc \in FlowPcs) ~> (RunFinished /\ Phase \in Terminal)

\* An invocation went down the long branch and ended StillFailing.
C10_Witness ==
  /\ Phase = "StillFailing"
  /\ NonPing = ToggleCycle \o Ticks(POST_TOGGLE_WAIT_SECONDS)

====
